---- MODULE Spec2Model ----
(***************************************************************************)
(* SourceLineResolver (src/processor/source_line_resolver.cc): the         *)
(* registry of per-module symbol tables, the line-oriented symbol file     *)
(* parser and the address lookup.                                          *)
(*                                                                         *)
(* C strings are sequences of one-character strings.  A symbol file is an  *)
(* input of the program: its physical lines are revealed one fgets call at *)
(* a time, drawn from a pool of record lines.                              *)
(***************************************************************************)
EXTENDS Integers, Sequences, FiniteSets, TLC

\* ------------------------------------------------------------------------
\* C library pieces used by the parser
\* ------------------------------------------------------------------------

\* Delimiters of strtok(line, " \r\n") and of strtok(NULL, "\r\n").
TokenDelims == {" ", "\r", "\n"}
EolDelims == {"\r", "\n"}
WhiteSpace == {" ", "\t", "\n", "\r", "\f"}

\* Index of the first character of s that lies in d (Len(s)+1 if none).
FirstIn(s, d) ==
  IF \E i \in 1..Len(s) : s[i] \in d
  THEN CHOOSE i \in 1..Len(s) : s[i] \in d /\ \A j \in 1..(i-1) : s[j] \notin d
  ELSE Len(s) + 1

\* Index of the first character of s that does not lie in d (Len(s)+1 if none).
FirstNotIn(s, d) ==
  IF \E i \in 1..Len(s) : s[i] \notin d
  THEN CHOOSE i \in 1..Len(s) : s[i] \notin d /\ \A j \in 1..(i-1) : s[j] \in d
  ELSE Len(s) + 1

DropFirst(s, n) == SubSeq(s, n + 1, Len(s))

\* strtok on the unread part s of the buffer: skips leading delimiters, returns
\* the token up to the next delimiter, and leaves the position after the
\* delimiter it overwrote with NUL.  found = FALSE is the NULL return.
TokenOfLength(t, n) ==
  [found |-> TRUE, token |-> SubSeq(t, 1, n), rest |-> DropFirst(t, n + 1)]

TokenAtStart(t, d) ==
  IF t = <<>>
  THEN [found |-> FALSE, token |-> <<>>, rest |-> <<>>]
  ELSE TokenOfLength(t, FirstIn(t, d) - 1)

strtok(s, d) == TokenAtStart(DropFirst(s, FirstNotIn(s, d) - 1), d)

DecDigits == <<"0", "1", "2", "3", "4", "5", "6", "7", "8", "9">>
HexLower == <<"a", "b", "c", "d", "e", "f">>
HexUpper == <<"A", "B", "C", "D", "E", "F">>

IsDec(c) == \E i \in 1..10 : DecDigits[i] = c
IsHex(c) == IsDec(c) \/ (\E i \in 1..6 : HexLower[i] = c) \/ (\E i \in 1..6 : HexUpper[i] = c)

DigitVal(c) ==
  IF IsDec(c) THEN (CHOOSE i \in 1..10 : DecDigits[i] = c) - 1
  ELSE IF \E i \in 1..6 : HexLower[i] = c
       THEN 9 + (CHOOSE i \in 1..6 : HexLower[i] = c)
       ELSE 9 + (CHOOSE i \in 1..6 : HexUpper[i] = c)

\* Value of the digit string s in the given base.
RECURSIVE DigitsVal(_, _)
DigitsVal(s, base) ==
  IF s = <<>> THEN 0
  ELSE DigitsVal(SubSeq(s, 1, Len(s) - 1), base) * base + DigitVal(s[Len(s)])

\* The longest prefix of s made of decimal (hexadecimal) digits.
DecPrefix(s) == SubSeq(s, 1, FirstNotIn(s, {c \in {s[i] : i \in 1..Len(s)} : IsDec(c)}) - 1)
HexPrefix(s) == SubSeq(s, 1, FirstNotIn(s, {c \in {s[i] : i \in 1..Len(s)} : IsHex(c)}) - 1)

\* The value of the digits that start u, decimal or hexadecimal.
Magnitude(u, base) ==
  DigitsVal(IF base = 10 THEN DecPrefix(u) ELSE HexPrefix(u), base)

\* An optional sign, then digits; 0 when there are none.
SignedVal(t, base) ==
  IF t = <<>> THEN 0
  ELSE IF t[1] = "-" THEN 0 - Magnitude(Tail(t), base)
  ELSE IF t[1] = "+" THEN Magnitude(Tail(t), base)
  ELSE Magnitude(t, base)

\* atoi: leading white space, an optional sign, then decimal digits.
atoi(s) == SignedVal(DropFirst(s, FirstNotIn(s, WhiteSpace) - 1), 10)

\* strtol(s, NULL, 16): as atoi, in base 16.
strtol16(s) == SignedVal(DropFirst(s, FirstNotIn(s, WhiteSpace) - 1), 16)

\* strtoull(s, NULL, 16) and strtoul(s, NULL, 16) on an unsigned token: leading
\* white space, then hexadecimal digits; 0 when there are none.  (The record
\* lines of this model carry no sign and no 0x prefix in these fields, and at
\* most seven digits.)
strtoull16(s) == Magnitude(DropFirst(s, FirstNotIn(s, WhiteSpace) - 1), 16)

\* strncmp(buffer, prefix, Len(prefix)) == 0
HasPrefix(buffer, prefix) ==
  Len(buffer) >= Len(prefix) /\ SubSeq(buffer, 1, Len(prefix)) = prefix

\* ------------------------------------------------------------------------
\* Tokenize
\* ------------------------------------------------------------------------

\* The while loop of Tokenize: tok is the pending strtok result.
RECURSIVE TokenizeLoop(_, _, _)
TokenizeLoop(tok, remaining, tokens) ==
  IF ~tok.found
  THEN [tok |-> tok, remaining |-> remaining, tokens |-> tokens]
  ELSE IF remaining - 1 > 0
       THEN IF remaining - 1 > 1
            THEN TokenizeLoop(strtok(tok.rest, TokenDelims), remaining - 1,
                              Append(tokens, tok.token))
            ELSE TokenizeLoop(tok, remaining - 1, Append(tokens, tok.token))
       ELSE [tok |-> tok, remaining |-> remaining - 1, tokens |-> tokens]

\* The end of Tokenize with the rest of the line split at spaces too.
TokenizeRestSplit(loop) ==
  IF loop.remaining = 0 /\ strtok(loop.tok.rest, TokenDelims).found
  THEN Append(loop.tokens, strtok(loop.tok.rest, TokenDelims).token)
  ELSE loop.tokens

\* What follows the loop: with no token left to split off, the rest of the
\* line up to its end is the last token.
TokenizeRest(loop) ==
  IF loop.remaining = 0 /\ strtok(loop.tok.rest, EolDelims).found
  THEN Append(loop.tokens, strtok(loop.tok.rest, EolDelims).token)
  ELSE loop.tokens

TokenizeResult(tokens, max_tokens) ==
  [ok |-> Len(tokens) = max_tokens, tokens |-> tokens]

\* Tokenize(line, max_tokens, &tokens): ok is the return value.
Tokenize(line, max_tokens) ==
  TokenizeResult(TokenizeRest(TokenizeLoop(strtok(line, TokenDelims), max_tokens, <<>>)),
                 max_tokens)

\* ------------------------------------------------------------------------
\* MemAddr: unsigned 64-bit, as four 16-bit limbs, most significant first
\* ------------------------------------------------------------------------

LimbBase == 65536

\* The u_int64_t with value n, for 0 <= n < 2^31.
ToU64(n) == <<0, 0, n \div LimbBase, n % LimbBase>>

\* A subtraction that takes each limb from its own, without borrowing.
SubU64NoBorrow(a, b) == [i \in 1..4 |-> (a[i] - b[i]) % LimbBase]

\* a - b in u_int64_t arithmetic (mod 2^64).
SubU64(a, b) ==
  [i \in 1..4 |->
     (a[i] - b[i]
      - (IF i = 4 THEN 0
         ELSE IF \E j \in (i+1)..4 :
                   /\ a[j] < b[j]
                   /\ \A k \in (i+1)..(j-1) : a[k] = b[k]
              THEN 1 ELSE 0)) % LimbBase]

LtU64(a, b) ==
  \E i \in 1..4 : a[i] < b[i] /\ \A j \in 1..(i-1) : a[j] = b[j]

LeU64(a, b) == a = b \/ LtU64(a, b)

\* ------------------------------------------------------------------------
\* RangeMap and ContainedRangeMap (processor/range_map-inl.h and
\* processor/contained_range_map-inl.h are not part of the sources at hand;
\* both follow sections 4.1 and 4.2 of the specification)
\* ------------------------------------------------------------------------

Max(a, b) == IF a >= b THEN a ELSE b
Min(a, b) == IF a <= b THEN a ELSE b

\* [b1, b1+s1) and [b2, b2+s2) share an address.
RangesOverlap(b1, s1, b2, s2) == Max(b1, b2) < Min(b1 + s1, b2 + s2)

\* [b1, b1+s1) lies inside [b2, b2+s2).
RangeInside(b1, s1, b2, s2) == b2 <= b1 /\ b1 + s1 <= b2 + s2

\* base <= address <= base + size: a range that takes in the address after
\* its last.
InRangeClosed(address, base, size) ==
  LeU64(ToU64(base), address) /\ LeU64(address, ToU64(base + size))

\* base <= address < base + size, the address a MemAddr.
InRange(address, base, size) ==
  LeU64(ToU64(base), address) /\ LtU64(address, ToU64(base + size))

\* RangeMap::StoreRange: a set of [base, size, entry]; ok is the return value.
RangeMapStoreRange(map, base, size, entry) ==
  IF \E r \in map : RangesOverlap(base, size, r.base, r.size)
  THEN [ok |-> FALSE, map |-> map]
  ELSE [ok |-> TRUE, map |-> map \cup {[base |-> base, size |-> size, entry |-> entry]}]

\* RangeMap::RetrieveRange: the stored ranges that contain the address (at
\* most one, the stored ranges being disjoint).
RangeMapRetrieveRange(map, address) ==
  {r \in map : InRange(address, r.base, r.size)}

\* The ranges of a ContainedRangeMap (a set of [base, size, depth, entry],
\* depth the nesting level, 1 at top level) that enclose [base, base+size).
Enclosing(map, base, size) == {r \in map : RangeInside(base, size, r.base, r.size)}

\* The nesting level of a range stored inside the ranges `around`.
DepthInside(around) ==
  IF around = {} THEN 1
  ELSE 1 + (CHOOSE d \in {r.depth : r \in around} : \A r \in around : r.depth <= d)

\* ContainedRangeMap::StoreRange: ok is the return value.
ContainedStoreRange(map, base, size, entry) ==
  IF \E r \in map : /\ RangesOverlap(base, size, r.base, r.size)
                    /\ ~RangeInside(base, size, r.base, r.size)
  THEN [ok |-> FALSE, map |-> map]
  ELSE [ok |-> TRUE,
        map |-> map \cup {[base |-> base, size |-> size,
                           depth |-> DepthInside(Enclosing(map, base, size)),
                           entry |-> entry]}]

\* The shallowest of the ranges `around`.
Outermost(around) == {r \in around : \A q \in around : r.depth <= q.depth}

\* The deepest of the ranges `around`.
Innermost(around) == {r \in around : \A q \in around : q.depth <= r.depth}

\* ContainedRangeMap::RetrieveRange: the innermost stored range that contains
\* the address (the empty set if none does).
ContainedRetrieveRange(map, address) ==
  Innermost({r \in map : InRange(address, r.base, r.size)})

\* ------------------------------------------------------------------------
\* Module: the symbol table of one binary and its parser
\* ------------------------------------------------------------------------

\* enum StackInfoTypes
STACK_INFO_FPO == 0
STACK_INFO_TRAP == 1
STACK_INFO_TSS == 2
STACK_INFO_STANDARD == 3
STACK_INFO_FRAME_DATA == 4
STACK_INFO_LAST == 5

\* sizeof(buffer) in LoadMap
BufferSize == 1024

\* Module(name): no files, no functions, no stack info.
NewModule(name) ==
  [name_ |-> name,
   files_ |-> <<>>,
   functions_ |-> {},
   stack_info_ |-> [t \in 0..(STACK_INFO_LAST - 1) |-> {}]]

\* Function(name, address, size): its line map starts empty.
NewFunction(name, address, size) ==
  [name |-> name, address |-> address, size |-> size, lines |-> {}]

\* Line(addr, code_size, file_id, source_line)
NewLine(address, size, file_id, source_line) ==
  [address |-> address, size |-> size, source_file_id |-> file_id, line |-> source_line]

\* StackFrameInfo(prolog_size, ..., program_string): a valid record.
NewStackFrameInfo(prolog, epilog, params, saved, locals, max_stack, program) ==
  [valid |-> TRUE, prolog_size |-> prolog, epilog_size |-> epilog,
   parameter_size |-> params, saved_register_size |-> saved,
   local_size |-> locals, max_stack_size |-> max_stack,
   program_string |-> program]

\* An insert that replaces the name of an index already present.
FileMapInsertOverwrites(files, index, filename) ==
  [i \in DOMAIN files \cup {index} |-> IF i = index THEN filename ELSE files[i]]

\* hash_map::insert(make_pair(index, filename)): an index already present
\* keeps its name.  files_ is a function from the registered ids to names.
FileMapInsert(files, index, filename) ==
  IF index \in DOMAIN files THEN files
  ELSE [i \in DOMAIN files \cup {index} |-> IF i = index THEN filename ELSE files[i]]

\* ParseFile that registers a name under any index.
FileFromTokensAnyIndex(module, t) ==
  IF ~t.ok THEN module
  ELSE [module EXCEPT !.files_ = FileMapInsert(@, atoi(t.tokens[1]), t.tokens[2])]

\* ParseFile once the line is tokenized.
FileFromTokens(module, t) ==
  IF ~t.ok THEN module
  ELSE IF atoi(t.tokens[1]) < 0 THEN module
  ELSE [module EXCEPT !.files_ = FileMapInsert(@, atoi(t.tokens[1]), t.tokens[2])]

\* Module::ParseFile: the module after a "FILE " line.
ParseFile(module, file_line) ==
  FileFromTokens(module, Tokenize(DropFirst(file_line, 5), 2))

\* ParseFunction once the line is tokenized.
FunctionFromTokens(t) ==
  IF ~t.ok THEN [ok |-> FALSE, func |-> NewFunction(<<>>, 0, 0)]
  ELSE [ok |-> TRUE,
        func |-> NewFunction(t.tokens[3], strtoull16(t.tokens[1]),
                             strtoull16(t.tokens[2]))]

\* Module::ParseFunction: ok = FALSE is the NULL return.
ParseFunction(function_line) ==
  FunctionFromTokens(Tokenize(DropFirst(function_line, 5), 3))

\* ParseLine that takes any line number.
LineFromTokensAnyNumber(t) ==
  IF ~t.ok THEN [ok |-> FALSE, line |-> NewLine(0, 0, 0, 0)]
  ELSE [ok |-> TRUE,
        line |-> NewLine(strtoull16(t.tokens[1]), strtoull16(t.tokens[2]),
                         atoi(t.tokens[4]), atoi(t.tokens[3]))]

\* ParseLine once the line is tokenized.
LineFromTokens(t) ==
  IF ~t.ok THEN [ok |-> FALSE, line |-> NewLine(0, 0, 0, 0)]
  ELSE IF atoi(t.tokens[3]) <= 0 THEN [ok |-> FALSE, line |-> NewLine(0, 0, 0, 0)]
  ELSE [ok |-> TRUE,
        line |-> NewLine(strtoull16(t.tokens[1]), strtoull16(t.tokens[2]),
                         atoi(t.tokens[4]), atoi(t.tokens[3]))]

\* Module::ParseLine: ok = FALSE is the NULL return.
ParseLine(line_line) == LineFromTokens(Tokenize(line_line, 4))

\* The StoreRange call that ends ParseStackInfo; its return value is ignored.
StoreStackInfo(stack_info, type, rva, code_size, info) ==
  [stack_info EXCEPT ![type] = ContainedStoreRange(@, rva, code_size, info).map]

\* The numeric fields of a STACK line, tokens 3 to 10 (rva to max_stack_size).
StackNumbers(tk) == [i \in 3..10 |-> strtoull16(tk[i])]

\* The end of ParseStackInfo: the record built from the fields and stored.
StackInfoStored(module, type, n, program_string) ==
  [module EXCEPT !.stack_info_ =
     StoreStackInfo(@, type, n[3], n[4],
                    NewStackFrameInfo(n[5], n[6], n[7], n[8], n[9], n[10],
                                      program_string))]

\* ParseStackInfo that returns what StoreRange returned.
StackInfoOfTypeStrict(module, type, tk) ==
  IF type < 0 \/ type > STACK_INFO_LAST - 1
  THEN [ok |-> FALSE, module |-> module]
  ELSE [ok |-> ContainedStoreRange(module.stack_info_[type], StackNumbers(tk)[3],
                                   StackNumbers(tk)[4], tk[11]).ok,
        module |-> StackInfoStored(module, type, StackNumbers(tk), tk[11])]

\* ParseStackInfo once the type is read.
StackInfoOfType(module, type, tk) ==
  IF type < 0 \/ type > STACK_INFO_LAST - 1
  THEN [ok |-> FALSE, module |-> module]
  ELSE [ok |-> TRUE, module |-> StackInfoStored(module, type, StackNumbers(tk), tk[11])]

\* ParseStackInfo once the line is tokenized.
StackInfoFromTokens(module, t) ==
  IF ~t.ok THEN [ok |-> FALSE, module |-> module]
  ELSE IF t.tokens[1] # <<"W", "I", "N">> THEN [ok |-> FALSE, module |-> module]
  ELSE StackInfoOfType(module, strtol16(t.tokens[2]), t.tokens)

\* Module::ParseStackInfo: ok is the return value.
ParseStackInfo(module, stack_info_line) ==
  StackInfoFromTokens(module, Tokenize(DropFirst(stack_info_line, 6), 11))

\* cur_func in LoadMap: NULL, a Function the function map owns (named by its
\* range), or a pointer to a Function that has been deleted.
NullFunc == [kind |-> "null", base |-> 0, size |-> 0]
StoredFunc(base, size) == [kind |-> "stored", base |-> base, size |-> size]
DeletedFunc == [kind |-> "deleted", base |-> 0, size |-> 0]

\* The "FUNC " branch of LoadMap after a successful ParseFunction, st the
\* result of functions_.StoreRange.  The temporary linked_ptr<Function>(cur_func)
\* is the object's only owner unless StoreRange copied it into the map: when
\* the store is refused the Function is deleted at the end of the statement
\* and cur_func dangles.
FunctionStored(module, func, st) ==
  [status |-> "continue",
   module |-> [module EXCEPT !.functions_ = st.map],
   cur_func |-> IF st.ok THEN StoredFunc(func.address, func.size) ELSE DeletedFunc]

StoreFunction(module, func) ==
  FunctionStored(module, func,
                 RangeMapStoreRange(module.functions_, func.address, func.size, func))

\* cur_func->lines.StoreRange(line->address, line->size, line) on a Function
\* the function map owns.
StoreLine(module, cur_func, line) ==
  [module EXCEPT !.functions_ =
     {IF r.base = cur_func.base /\ r.size = cur_func.size
      THEN [r EXCEPT !.entry.lines =
              RangeMapStoreRange(@, line.address, line.size, line).map]
      ELSE r : r \in @}]

\* An fgets that takes the whole physical line, whatever the buffer holds.
FgetsLengthUnbounded(stream) == Min(FirstIn(stream, {"\n"}), Len(stream))

\* The characters one fgets(buffer, sizeof(buffer), f) takes from the unread
\* part of a physical line: at most sizeof(buffer) - 1, stopping after a
\* newline.
FgetsLength(stream) ==
  Min(Min(FirstIn(stream, {"\n"}), Len(stream)), BufferSize - 1)

Fgets(stream) ==
  [buffer |-> SubSeq(stream, 1, FgetsLength(stream)),
   rest |-> DropFirst(stream, FgetsLength(stream))]

Continue(module, cur_func) ==
  [status |-> "continue", module |-> module, cur_func |-> cur_func]

Abort(module, cur_func) ==
  [status |-> "abort", module |-> module, cur_func |-> cur_func]

\* The "STACK " branch after ParseStackInfo.
AfterParseStackInfo(r, cur_func) ==
  IF r.ok THEN Continue(r.module, cur_func) ELSE Abort(r.module, cur_func)

\* The "FUNC " branch that goes on to the next line when ParseFunction
\* returns NULL.
AfterParseFunctionSkips(module, f) ==
  IF ~f.ok THEN Continue(module, NullFunc) ELSE StoreFunction(module, f.func)

\* The "FUNC " branch after ParseFunction.
AfterParseFunction(module, f) ==
  IF ~f.ok THEN Abort(module, NullFunc) ELSE StoreFunction(module, f.func)

\* The last branch after ParseLine, cur_func not NULL.  Status "dangling":
\* the line is stored through a cur_func that points to a deleted Function.
AfterParseLine(module, cur_func, l) ==
  IF ~l.ok THEN Abort(module, cur_func)
  ELSE IF cur_func.kind = "deleted"
  THEN [status |-> "dangling", module |-> module, cur_func |-> cur_func]
  ELSE Continue(StoreLine(module, cur_func, l.line), cur_func)

\* One iteration of the while loop of LoadMap on the buffer just read.
\* status: "continue" (next fgets), "abort" (return false), or "dangling".
LoadMapBody(module, cur_func, buffer) ==
  IF HasPrefix(buffer, <<"F", "I", "L", "E", " ">>)
  THEN Continue(ParseFile(module, buffer), cur_func)
  ELSE IF HasPrefix(buffer, <<"S", "T", "A", "C", "K", " ">>)
  THEN AfterParseStackInfo(ParseStackInfo(module, buffer), cur_func)
  ELSE IF HasPrefix(buffer, <<"F", "U", "N", "C", " ">>)
  THEN AfterParseFunction(module, ParseFunction(buffer))
  ELSE IF cur_func.kind = "null"
  THEN Abort(module, cur_func)
  ELSE AfterParseLine(module, cur_func, ParseLine(buffer))

\* ------------------------------------------------------------------------
\* Module::LookupAddress
\* ------------------------------------------------------------------------

\* The result of one RetrieveRange into *frame_info, hit what the map holds
\* for the address: the entry found, or the record as it was.
RetrieveInto(hit, frame_info) ==
  IF hit = {} THEN frame_info ELSE (CHOOSE r \in hit : TRUE).entry

\* The frame info part of LookupAddress with the FPO map probed first.
LookupStackInfoFpoFirst(module, address, frame_info) ==
  IF ContainedRetrieveRange(module.stack_info_[STACK_INFO_FPO], address) # {}
  THEN RetrieveInto(ContainedRetrieveRange(module.stack_info_[STACK_INFO_FPO], address),
                    frame_info)
  ELSE IF ContainedRetrieveRange(module.stack_info_[STACK_INFO_FRAME_DATA], address) # {}
  THEN RetrieveInto(ContainedRetrieveRange(module.stack_info_[STACK_INFO_FRAME_DATA],
                                           address), frame_info)
  ELSE RetrieveInto(ContainedRetrieveRange(module.stack_info_[STACK_INFO_STANDARD],
                                           address), frame_info)

\* A stack info lookup that goes on to the trap and TSS records when the
\* three other types hold nothing for the address.
LookupStackInfoAllTypes(module, address, frame_info) ==
  IF ContainedRetrieveRange(module.stack_info_[STACK_INFO_FRAME_DATA], address) # {}
  THEN RetrieveInto(ContainedRetrieveRange(module.stack_info_[STACK_INFO_FRAME_DATA],
                                           address), frame_info)
  ELSE IF ContainedRetrieveRange(module.stack_info_[STACK_INFO_FPO], address) # {}
  THEN RetrieveInto(ContainedRetrieveRange(module.stack_info_[STACK_INFO_FPO], address),
                    frame_info)
  ELSE IF ContainedRetrieveRange(module.stack_info_[STACK_INFO_STANDARD], address) # {}
  THEN RetrieveInto(ContainedRetrieveRange(module.stack_info_[STACK_INFO_STANDARD],
                                           address), frame_info)
  ELSE IF ContainedRetrieveRange(module.stack_info_[STACK_INFO_TRAP], address) # {}
  THEN RetrieveInto(ContainedRetrieveRange(module.stack_info_[STACK_INFO_TRAP], address),
                    frame_info)
  ELSE RetrieveInto(ContainedRetrieveRange(module.stack_info_[STACK_INFO_TSS], address),
                    frame_info)

\* The frame info part of LookupAddress: the order in which the stack info
\* maps are probed.
LookupStackInfo(module, address, frame_info) ==
  IF ContainedRetrieveRange(module.stack_info_[STACK_INFO_FRAME_DATA], address) # {}
  THEN RetrieveInto(ContainedRetrieveRange(module.stack_info_[STACK_INFO_FRAME_DATA],
                                           address), frame_info)
  ELSE IF ContainedRetrieveRange(module.stack_info_[STACK_INFO_FPO], address) # {}
  THEN RetrieveInto(ContainedRetrieveRange(module.stack_info_[STACK_INFO_FPO], address),
                    frame_info)
  ELSE RetrieveInto(ContainedRetrieveRange(module.stack_info_[STACK_INFO_STANDARD],
                                           address), frame_info)

\* The end of LookupAddress with a file name that is cleared when the file
\* table lacks the line's file id.
LookupFileClears(files, line, frame) ==
  IF line.source_file_id \in DOMAIN files
  THEN [frame EXCEPT !.source_file_name = files[line.source_file_id],
                     !.source_line = line.line]
  ELSE [frame EXCEPT !.source_file_name = <<>>, !.source_line = line.line]

\* The end of LookupAddress, the line found: the file name if the file table
\* has the line's file id, and the line number.
LookupFile(files, line, frame) ==
  IF line.source_file_id \in DOMAIN files
  THEN [frame EXCEPT !.source_file_name = files[line.source_file_id],
                     !.source_line = line.line]
  ELSE [frame EXCEPT !.source_line = line.line]

\* LookupAddress that sets function_name only when it finds no line.
LookupLineOnly(files, func, lines, frame) ==
  IF lines = {} THEN [frame EXCEPT !.function_name = func.name]
  ELSE LookupFile(files, (CHOOSE r \in lines : TRUE).entry, frame)

\* LookupAddress from the function found on, lines what func->lines holds
\* for the address.
LookupLine(files, func, lines, frame) ==
  IF lines = {} THEN [frame EXCEPT !.function_name = func.name]
  ELSE LookupFile(files, (CHOOSE r \in lines : TRUE).entry,
                  [frame EXCEPT !.function_name = func.name])

\* The line records of any function that contain the address.
LinesAnywhere(module, address) ==
  UNION {RangeMapRetrieveRange(f.entry.lines, address) : f \in module.functions_}

\* LookupAddress that, finding no function, still looks for a line record in
\* the functions' line maps.
LookupFunctionAnyLine(module, address, funcs, frame) ==
  IF funcs = {}
  THEN IF LinesAnywhere(module, address) = {} THEN frame
       ELSE LookupFile(module.files_,
                       (CHOOSE r \in LinesAnywhere(module, address) : TRUE).entry, frame)
  ELSE LookupLine(module.files_, (CHOOSE r \in funcs : TRUE).entry,
                  RangeMapRetrieveRange((CHOOSE r \in funcs : TRUE).entry.lines, address),
                  frame)

\* LookupAddress that resets the source fields when it finds no function.
LookupFunctionClears(module, address, funcs, frame) ==
  IF funcs = {}
  THEN [frame EXCEPT !.function_name = <<>>, !.source_file_name = <<>>,
                     !.source_line = 0]
  ELSE LookupLine(module.files_, (CHOOSE r \in funcs : TRUE).entry,
                  RangeMapRetrieveRange((CHOOSE r \in funcs : TRUE).entry.lines, address),
                  frame)

\* LookupAddress from the function lookup on, funcs what functions_ holds for
\* the address.
LookupFunction(module, address, funcs, frame) ==
  IF funcs = {} THEN frame
  ELSE LookupLine(module.files_, (CHOOSE r \in funcs : TRUE).entry,
                  RangeMapRetrieveRange((CHOOSE r \in funcs : TRUE).entry.lines, address),
                  frame)

\* The function, line and file part of LookupAddress: the frame after it.
LookupSource(module, address, frame) ==
  LookupFunction(module, address, RangeMapRetrieveRange(module.functions_, address), frame)

\* ------------------------------------------------------------------------
\* Symbol file lines
\* ------------------------------------------------------------------------

\* The words of a record joined by single spaces.
RECURSIVE Join(_)
Join(words) ==
  IF Len(words) = 1 THEN words[1]
  ELSE words[1] \o <<" ">> \o Join(Tail(words))

\* A physical line: the record and its newline.
Record(words) == Join(words) \o <<"\n">>

kFILE == <<"F", "I", "L", "E">>
kFUNC == <<"F", "U", "N", "C">>
kSTACK == <<"S", "T", "A", "C", "K">>
kWIN == <<"W", "I", "N">>
h1000 == <<"1", "0", "0", "0">>
h1004 == <<"1", "0", "0", "4">>
h1005 == <<"1", "0", "0", "5">>
h1008 == <<"1", "0", "0", "8">>
h1010 == <<"1", "0", "1", "0">>
nFoo == <<"f", "o", "o">>
nBar == <<"b", "a", "r">>
nBaz == <<"b", "a", "z">>
nAc == <<"a", ".", "c">>
nBc == <<"b", ".", "c">>
nProg == <<"p", "r", "o", "g">>
nInner == <<"$", "T", "0", " ", "$", "e", "b", "p", " ", "=">>
nFpo == <<"f", "p", "o">>
nStd == <<"s", "t", "d">>
nTrap == <<"t", "r", "a", "p">>
nLate == <<"l", "a", "t", "e">>

\* FILE <id> <filename>
FileA == Record(<<kFILE, <<"0">>, nAc>>)
FileB == Record(<<kFILE, <<"0">>, nBc>>)

\* FUNC <address> <size> <name>: foo is [1000,1010), bar [1008,1018) overlaps
\* foo, baz [1010,1018) follows foo and overlaps bar.
FuncFoo == Record(<<kFUNC, h1000, <<"1", "0">>, nFoo>>)
FuncBar == Record(<<kFUNC, h1008, <<"1", "0">>, nBar>>)
FuncBaz == Record(<<kFUNC, h1010, <<"8">>, nBaz>>)

\* <address> <size> <line number> <source file id>
Line42 == Record(<<h1000, <<"5">>, <<"4", "2">>, <<"0">>>>)
Line43 == Record(<<h1005, <<"3">>, <<"4", "3">>, <<"1">>>>)
Line7 == Record(<<h1010, <<"4">>, <<"7">>, <<"0">>>>)
LineZero == Record(<<h1000, <<"5">>, <<"0">>, <<"0">>>>)

\* STACK WIN <type> <rva> <code_size> <prolog_size> <epilog_size>
\* <parameter_size> <saved_register_size> <local_size> <max_stack_size>
\* <program_string>
StackRecord(platform, type, rva, size, program) ==
  Record(<<kSTACK, platform, type, rva, size, <<"1">>, <<"2">>, <<"3">>, <<"4">>,
           <<"5">>, <<"6">>, program>>)

\* Frame data [1000,1010), one nested in it [1004,1008), one that overlaps it
\* in part [1008,1018); FPO [1000,1010); standard [1000,1020); trap.
StackData == StackRecord(kWIN, <<"4">>, h1000, <<"1", "0">>, nProg)
StackInner == StackRecord(kWIN, <<"4">>, h1004, <<"4">>, nInner)
StackLate == StackRecord(kWIN, <<"4">>, h1008, <<"1", "0">>, nLate)
StackFpo == StackRecord(kWIN, <<"0">>, h1000, <<"1", "0">>, nFpo)
StackStd == StackRecord(kWIN, <<"3">>, h1000, <<"2", "0">>, nStd)
StackTrap == StackRecord(kWIN, <<"1">>, h1000, <<"2", "0">>, nTrap)
nTss == <<"t", "s", "s">>
StackTss == StackRecord(kWIN, <<"2">>, h1000, <<"2", "0">>, nTss)
StackBadType == StackRecord(kWIN, <<"5">>, h1000, <<"1", "0">>, nProg)

\* Lines that lack their last token, a FILE line with a negative id, and a
\* STACK line of another platform.
nMac == <<"M", "A", "C">>
FileShort == Record(<<kFILE, <<"0">>>>)
FileNegative == Record(<<kFILE, <<"-", "1">>, nBc>>)
FuncShort == Record(<<kFUNC, h1000, <<"1", "0">>>>)
LineShort == Record(<<h1000, <<"5">>, <<"4", "2">>>>)
StackShort ==
  Record(<<kSTACK, kWIN, <<"4">>, h1000, <<"1", "0">>, <<"1">>, <<"2">>, <<"3">>,
           <<"4">>, <<"5">>, <<"6">>>>)
StackNotWin == StackRecord(nMac, <<"4">>, h1000, <<"1", "0">>, nProg)

\* Last tokens with spaces in them: a FUNC line that ends in "\r\n" and has
\* two spaces before its name, a FILE line whose name has a space, and a FILE
\* line with nothing but two spaces after its id.
nFooBar == <<"f", "o", "o", " ", "b", "a", "r">>
nMyFile == <<"m", "y", " ", "f", "i", "l", "e", ".", "c">>
FuncSpaced == Join(<<kFUNC, h1000, <<"1", "0">>, <<>>, nFooBar>>) \o <<"\r", "\n">>
FileSpaced == Record(<<kFILE, <<"0">>, nMyFile>>)
FileBlank == Record(<<kFILE, <<"0">>, <<>>, <<>>>>)

\* Physical lines longer than the buffer: FUNC 1000 10 and a name of x's that
\* fills the first sizeof(buffer) - 1 characters, then `tail`; FILE 0 and a
\* name of x's that fills them, then "y" and the newline.
Pad(n) == [i \in 1..n |-> "x"]
LongFunc(tail) ==
  Join(<<kFUNC, h1000, <<"1", "0">>, Pad(BufferSize - 1 - 13)>>) \o tail
LongFile == Join(<<kFILE, <<"0">>, Pad(BufferSize - 1 - 7)>>) \o <<"y", "\n">>

\* The record lines the symbol files of one module are made of.
ModulePool ==
  {FileA, FuncFoo, FuncBar, FuncBaz, Line42, Line43,
   StackData, StackInner, StackLate, StackFpo, StackStd, StackTrap}

\* Longest symbol file, in physical lines.
MaxLines == 4

\* Most FILE handles the process can hold at a time.
MaxOpenFiles == 2

\* ------------------------------------------------------------------------
\* The resolver and its caller
\* ------------------------------------------------------------------------

VARIABLES
  modules,      \* SourceLineResolver::modules_: module name -> Module
  pc,           \* "idle", "loading" (inside LoadMap), "failed" (LoadMap has
                \* returned false), "crashed"
  load,         \* the LoadModule call in progress: its Module, cur_func, input
  files_open,   \* FILE handles fopen returned and fclose has not released
  frame,        \* the caller's StackFrame
  frame_info,   \* the caller's StackFrameInfo (null: none is passed)
  call          \* the most recent call and what it returned

vars == <<modules, pc, load, files_open, frame, frame_info, call>>

\* No call in progress.  buffer is LoadMap's buffer as the last fgets filled
\* it, rest the part of the physical line fgets has not read yet, nlines the
\* physical lines read so far.
NoLoad ==
  [module_name |-> "", module |-> NewModule(""), cur_func |-> NullFunc,
   buffer |-> <<>>, rest |-> <<>>, nlines |-> 0]

\* StackFrame(): no frame is alive until the caller makes one.
NoFrame ==
  [alive |-> FALSE, module_name |-> "", module_base |-> ToU64(0),
   instruction |-> ToU64(0), function_name |-> <<>>, source_file_name |-> <<>>,
   source_line |-> 0]

\* StackFrameInfo(): not valid.
DefaultInfo ==
  [valid |-> FALSE, prolog_size |-> 0, epilog_size |-> 0,
   parameter_size |-> 0, saved_register_size |-> 0, local_size |-> 0,
   max_stack_size |-> 0, program_string |-> <<>>]

\* The frame_info argument: a null pointer, or a pointer to the caller's record.
NullInfo == [null |-> TRUE, info |-> DefaultInfo]
InfoAt(info) == [null |-> FALSE, info |-> info]

\* Outputs left in a reused frame and frame info by an earlier lookup.
nOld == <<"o", "l", "d">>
StaleInfo == [DefaultInfo EXCEPT !.valid = TRUE, !.prolog_size = 9, !.program_string = nOld]

Returned(op, name, value) == [op |-> op, name |-> name, done |-> TRUE, value |-> value]

Init ==
  /\ modules = <<>>
  /\ pc = "idle"
  /\ load = NoLoad
  /\ files_open = 0
  /\ frame = NoFrame
  /\ frame_info = NullInfo
  /\ call = Returned("SourceLineResolver", "", TRUE)

\* LoadModule without the check for a module of that name: the file is
\* loaded again.
LoadModuleReloads(name) ==
  /\ pc = "idle"
  /\ ~frame.alive
  /\ name \in DOMAIN modules
  /\ files_open < MaxOpenFiles
  /\ pc' = "loading"
  /\ load' = [NoLoad EXCEPT !.module_name = name, !.module = NewModule(name)]
  /\ files_open' = files_open + 1
  /\ call' = [op |-> "LoadModule", name |-> name, done |-> FALSE, value |-> FALSE]
  /\ UNCHANGED <<modules, frame, frame_info>>

\* LoadModule, the name already registered: return false.
LoadModuleRegistered(name) ==
  /\ pc = "idle"
  /\ ~frame.alive
  /\ name \in DOMAIN modules
  /\ call' = Returned("LoadModule", name, FALSE)
  /\ UNCHANGED <<modules, pc, load, files_open, frame, frame_info>>

\* LoadModule, fopen fails in LoadMap: the new Module is deleted, return false.
LoadModuleNoFile(name) ==
  /\ pc = "idle"
  /\ ~frame.alive
  /\ name \notin DOMAIN modules
  /\ call' = Returned("LoadModule", name, FALSE)
  /\ UNCHANGED <<modules, pc, load, files_open, frame, frame_info>>

\* LoadModule up to the first fgets of LoadMap: new Module, fopen succeeds
\* (it cannot once the process holds all the handles it may).
LoadModuleOpen(name) ==
  /\ pc = "idle"
  /\ ~frame.alive
  /\ name \notin DOMAIN modules
  /\ files_open < MaxOpenFiles
  /\ pc' = "loading"
  /\ load' = [NoLoad EXCEPT !.module_name = name, !.module = NewModule(name)]
  /\ files_open' = files_open + 1
  /\ call' = [op |-> "LoadModule", name |-> name, done |-> FALSE, value |-> FALSE]
  /\ UNCHANGED <<modules, frame, frame_info>>

\* LoadModule that inserts the Module before it looks at what LoadMap
\* returned.
LoadAbortedRegisters ==
  /\ pc = "failed"
  /\ pc' = "idle"
  /\ load' = NoLoad
  /\ modules' = [n \in DOMAIN modules \cup {load.module_name} |->
                   IF n = load.module_name THEN load.module ELSE modules[n]]
  /\ call' = Returned("LoadModule", load.module_name, FALSE)
  /\ UNCHANGED <<files_open, frame, frame_info>>

\* LoadMap has returned false: LoadModule deletes the Module and returns
\* false.  Nothing has closed the file.
LoadAborted ==
  /\ pc = "failed"
  /\ pc' = "idle"
  /\ load' = NoLoad
  /\ call' = Returned("LoadModule", load.module_name, FALSE)
  /\ UNCHANGED <<modules, files_open, frame, frame_info>>

\* The loop goes on to the next fgets.
LoadContinues(module, cur_func, got, fresh) ==
  /\ load' = [load EXCEPT !.module = module, !.cur_func = cur_func,
                          !.buffer = got.buffer, !.rest = got.rest,
                          !.nlines = IF fresh THEN @ + 1 ELSE @]
  /\ UNCHANGED <<modules, pc, files_open, frame, frame_info, call>>

\* The loop body returns false, without fclose.
LoadMapFails(got) ==
  /\ pc' = "failed"
  /\ load' = [load EXCEPT !.buffer = got.buffer, !.rest = got.rest]
  /\ UNCHANGED <<modules, files_open, frame, frame_info, call>>

\* The process dies.
Crash(got) ==
  /\ pc' = "crashed"
  /\ load' = [load EXCEPT !.buffer = got.buffer, !.rest = got.rest]
  /\ UNCHANGED <<modules, files_open, frame, frame_info, call>>

\* What the loop body leads to.  A store through a dangling cur_func is
\* undefined: the loop may go on as if nothing had happened, or the process
\* may die.
AfterBody(body, got, fresh) ==
  IF body.status = "abort" THEN LoadMapFails(got)
  ELSE IF body.status = "continue"
  THEN LoadContinues(body.module, body.cur_func, got, fresh)
  ELSE \/ LoadContinues(body.module, body.cur_func, got, fresh)
       \/ Crash(got)

AfterFgets(got) ==
  AfterBody(LoadMapBody(load.module, load.cur_func, got.buffer), got,
            load.rest = <<>>)

\* One fgets that returns data, and the loop body on it.  The stream is what
\* is left of the physical line being read, or else the file's next line.
LoadMapRead(pool) ==
  /\ pc = "loading"
  /\ \E stream \in (IF load.rest # <<>> THEN {load.rest}
                    ELSE IF load.nlines < MaxLines THEN pool ELSE {}) :
       AfterFgets(Fgets(stream))

\* A successful LoadModule that leaves the new Module alone in the registry.
LoadMapEOFReplaces ==
  /\ pc = "loading"
  /\ load.rest = <<>>
  /\ modules' = [n \in {load.module_name} |-> load.module]
  /\ files_open' = files_open - 1
  /\ pc' = "idle"
  /\ load' = NoLoad
  /\ call' = Returned("LoadModule", load.module_name, TRUE)
  /\ UNCHANGED <<frame, frame_info>>

\* fgets returns NULL at end of file: fclose, LoadMap returns true, LoadModule
\* registers the Module and returns true.
LoadMapEOF ==
  /\ pc = "loading"
  /\ load.rest = <<>>
  /\ modules' = [n \in DOMAIN modules \cup {load.module_name} |->
                   IF n = load.module_name THEN load.module ELSE modules[n]]
  /\ files_open' = files_open - 1
  /\ pc' = "idle"
  /\ load' = NoLoad
  /\ call' = Returned("LoadModule", load.module_name, TRUE)
  /\ UNCHANGED <<frame, frame_info>>

HasModule(name) ==
  /\ pc = "idle"
  /\ ~frame.alive
  /\ call' = Returned("HasModule", name, name \in DOMAIN modules)
  /\ UNCHANGED <<modules, pc, load, files_open, frame, frame_info>>

\* The caller makes a frame for a lookup: a new one, or one that still holds
\* the outputs of an earlier lookup; with a frame info or without.
NewStackFrame(name, base, instruction, stale, want_info) ==
  /\ pc = "idle"
  /\ ~frame.alive
  /\ frame' = [alive |-> TRUE, module_name |-> name, module_base |-> base,
               instruction |-> instruction,
               function_name |-> IF stale THEN nOld ELSE <<>>,
               source_file_name |-> IF stale THEN nOld ELSE <<>>,
               source_line |-> IF stale THEN 99 ELSE 0]
  /\ frame_info' = IF ~want_info THEN NullInfo
                   ELSE IF stale THEN InfoAt(StaleInfo) ELSE InfoAt(DefaultInfo)
  /\ call' = Returned("StackFrame", name, TRUE)
  /\ UNCHANGED <<modules, pc, load, files_open>>

\* The caller is done with its frame.
ReleaseStackFrame ==
  /\ pc = "idle"
  /\ frame.alive
  /\ frame' = NoFrame
  /\ frame_info' = NullInfo
  /\ call' = Returned("~StackFrame", "", TRUE)
  /\ UNCHANGED <<modules, pc, load, files_open>>

\* Module::LookupAddress on the caller's frame and frame info.
LookupAddress(module, address) ==
  /\ frame_info' = IF frame_info.null THEN frame_info
                   ELSE InfoAt(LookupStackInfo(module, address, frame_info.info))
  /\ frame' = LookupSource(module, address, frame)

\* FillSourceLineInfo that clears the outputs when it finds no module.
FillSourceLineInfoClears ==
  /\ pc = "idle"
  /\ frame.alive
  /\ IF frame.module_name \in DOMAIN modules
     THEN LookupAddress(modules[frame.module_name],
                        SubU64(frame.instruction, frame.module_base))
     ELSE /\ frame' = [frame EXCEPT !.function_name = <<>>, !.source_file_name = <<>>,
                                    !.source_line = 0]
          /\ frame_info' = frame_info
  /\ call' = Returned("FillSourceLineInfo", frame.module_name, TRUE)
  /\ UNCHANGED <<modules, pc, load, files_open>>

FillSourceLineInfo ==
  /\ pc = "idle"
  /\ frame.alive
  /\ IF frame.module_name \in DOMAIN modules
     THEN LookupAddress(modules[frame.module_name],
                        SubU64(frame.instruction, frame.module_base))
     ELSE UNCHANGED <<frame, frame_info>>
  /\ call' = Returned("FillSourceLineInfo", frame.module_name, TRUE)
  /\ UNCHANGED <<modules, pc, load, files_open>>

\* Every call the caller can make, and every step of a call in progress, for
\* given module names, record lines, module bases and instruction addresses.
Step(names, pool, bases, instructions) ==
  \/ \E name \in names : LoadModuleRegistered(name)
  \/ \E name \in names : LoadModuleNoFile(name)
  \/ \E name \in names : LoadModuleOpen(name)
  \/ LoadMapRead(pool)
  \/ LoadAborted
  \/ LoadMapEOF
  \/ \E name \in names : HasModule(name)
  \/ \E name \in names, base \in bases, instruction \in instructions,
        stale \in BOOLEAN, want_info \in BOOLEAN :
       NewStackFrame(name, base, instruction, stale, want_info)
  \/ ReleaseStackFrame
  \/ FillSourceLineInfo

\* A resolver with two module names, symbol files of few kinds of record.
ModuleNames == {"m1", "m2"}
ResolverPool == {FuncFoo, Line42, StackData, LineZero}
ResolverBases == {ToU64(0), ToU64(4096)}
ResolverInstructions == {ToU64(4096), ToU64(4101), ToU64(8192)}

Next == Step(ModuleNames, ResolverPool, ResolverBases, ResolverInstructions)

Spec == Init /\ [][Next]_vars

\* A resolver with one module name, symbol files of every kind of record.
OneName == {"m1"}
ModuleBases == {ToU64(0)}
ModuleInstructions ==
  {ToU64(4096), ToU64(4100), ToU64(4101), ToU64(4104), ToU64(4111), ToU64(4112)}

NextModule == Step(OneName, ModulePool, ModuleBases, ModuleInstructions)

SpecModule == Init /\ [][NextModule]_vars

\* A resolver with one module name, symbol files of well-formed and of
\* malformed records, lookups at one address.
ParserPool ==
  {FileA, FileB, FileShort, FileNegative, FileSpaced, FileBlank, FuncFoo, FuncShort,
   FuncSpaced, Line42, LineShort, LineZero, StackData, StackInner, StackShort,
   StackBadType, StackNotWin}
ParserInstructions == {ToU64(4096)}

NextParser == Step(OneName, ParserPool, ModuleBases, ParserInstructions)

SpecParser == Init /\ [][NextParser]_vars

\* A resolver with one module name, a symbol file of one function with one
\* line record, and frames whose module base lies below, at and above the
\* instruction: 2^64 - 0x1000 is the base of a module that wraps around the
\* end of the address space.
AddressPool == {FileA, FuncFoo, Line42, StackData}
AddressBases == {ToU64(0), ToU64(4096), <<65535, 65535, 65535, 61440>>}
AddressInstructions == {ToU64(0), ToU64(4), ToU64(4096), ToU64(4100), ToU64(8192)}

NextAddress == Step(OneName, AddressPool, AddressBases, AddressInstructions)

SpecAddress == Init /\ [][NextAddress]_vars

\* A resolver with one module name and a symbol file in which the line record
\* 1010 4 7 0 can follow FUNC 1000 10 foo, outside foo's range.
ChainPool == {FileA, FuncFoo, FuncBaz, Line42, Line7}
ChainInstructions == {ToU64(4096), ToU64(4104), ToU64(4112), ToU64(4114), ToU64(4120)}

NextChain == Step(OneName, ChainPool, ModuleBases, ChainInstructions)

SpecChain == Init /\ [][NextChain]_vars

\* A resolver with one module name and a symbol file with STACK WIN records
\* of the types 4, 0, 1 and 2, and one of type 5, which the type check
\* refuses: the trap and TSS records cover [1000,1020), the others [1000,1010).
TypesPool == {FuncFoo, StackData, StackFpo, StackTrap, StackTss, StackBadType}

NextTypes == Step(OneName, TypesPool, ModuleBases, ModuleInstructions)

SpecTypes == Init /\ [][NextTypes]_vars

\* A resolver with one module name and symbol files with physical lines
\* longer than the buffer, whose second part is no record, a line record, a
\* FILE record or a FILE record without a name.
ChunkPool ==
  {Line42, LongFunc(<<"x", "x", "\n">>), LongFunc(Line42), LongFunc(FileB),
   LongFunc(FileShort), LongFile}

NextChunks == Step(OneName, ChunkPool, ModuleBases, ParserInstructions)

SpecChunks == Init /\ [][NextChunks]_vars

\* ------------------------------------------------------------------------
\* Properties of the resolver
\* ------------------------------------------------------------------------

\* Module-relative addresses looked at: from below the first range of the
\* record lines to beyond the last.
ProbeRange == 4094..4130

\* What a lookup at every probed address answers, into an empty frame and
\* into one that holds old outputs.
EmptyFrame == [NoFrame EXCEPT !.alive = TRUE]
OldFrame ==
  [EmptyFrame EXCEPT !.function_name = nOld, !.source_file_name = nOld,
                     !.source_line = 99]

Answers(module) ==
  [n \in ProbeRange |->
     <<LookupSource(module, ToU64(n), EmptyFrame),
       LookupSource(module, ToU64(n), OldFrame),
       LookupStackInfo(module, ToU64(n), DefaultInfo),
       LookupStackInfo(module, ToU64(n), StaleInfo)>>]

\* A step in which the caller calls LoadModule(name, ...).
CallsLoadModule(name) ==
  pc = "idle" /\ call'.op = "LoadModule" /\ call'.name = name /\ call' # call

\* A step in which a LoadModule call returns false.
LoadModuleFails ==
  call'.op = "LoadModule" /\ call'.done /\ ~call'.value /\ call' # call

\* C1: LoadModule for a name that is already registered returns false, and
\* every registered module answers every lookup as it did before the call.
C1_DuplicateLoadRefused ==
  [][\A name \in DOMAIN modules :
       CallsLoadModule(name) =>
         /\ call' = Returned("LoadModule", name, FALSE)
         /\ pc' = "idle"
         /\ DOMAIN modules' = DOMAIN modules
         /\ \A n \in DOMAIN modules : Answers(modules'[n]) = Answers(modules[n])]_vars

\* C1 witness: a LoadModule for a registered module that holds a function has
\* just returned false.
C1_Witness ==
  /\ call.op = "LoadModule" /\ call.done /\ ~call.value
  /\ call.name \in DOMAIN modules
  /\ modules[call.name].functions_ # {}

\* C2: a LoadModule that fails for a name that is not registered (fopen fails,
\* or the parser gives up) leaves the registry as it was and the name
\* unregistered; the Module being built is in the registry at no point of the
\* load; and a load of the name that reaches the end of its file returns true
\* and registers what it parsed.
C2_FailedLoadLeavesRegistry ==
  [][/\ (LoadModuleFails /\ call'.name \notin DOMAIN modules) =>
          /\ modules' = modules
          /\ call'.name \notin DOMAIN modules'
          /\ pc' = "idle"
     /\ (pc \in {"loading", "failed"} /\ ~(call'.done /\ call'.value)) =>
          modules' = modules
     /\ (pc = "loading" /\ files_open' < files_open) =>
          /\ call' = Returned("LoadModule", load.module_name, TRUE)
          /\ DOMAIN modules' = DOMAIN modules \cup {load.module_name}
          /\ modules'[load.module_name] = load.module
          /\ \A n \in DOMAIN modules : modules'[n] = modules[n]]_vars

\* C2 witness: a LoadModule has returned false for a name that is not
\* registered, and a file that a failed load opened is behind it.
C2_Witness ==
  /\ call.op = "LoadModule" /\ call.done /\ ~call.value
  /\ call.name \notin DOMAIN modules
  /\ files_open > 0

\* C3: FillSourceLineInfo on a frame whose module is not registered changes
\* neither the frame nor the frame info.
C3_UnknownModuleNoOp ==
  [][(call'.op = "FillSourceLineInfo" /\ frame.module_name \notin DOMAIN modules) =>
       /\ frame' = frame
       /\ frame_info' = frame_info]_vars

\* C3 witness: a lookup for an unregistered module has returned, on a frame
\* that held old outputs, while another module is registered.
C3_Witness ==
  /\ call.op = "FillSourceLineInfo"
  /\ frame.module_name \notin DOMAIN modules
  /\ frame.function_name = nOld
  /\ ~frame_info.null
  /\ DOMAIN modules # {}

\* A step in which FillSourceLineInfo returns.
Fills == call'.op = "FillSourceLineInfo"

\* The frame's module is registered and n is the address LookupAddress is
\* given, instruction - module_base.
Rel(n) ==
  /\ frame.module_name \in DOMAIN modules
  /\ SubU64(frame.instruction, frame.module_base) = ToU64(n)

\* The module the frame names.
FrameModule == modules[frame.module_name]

\* n lies in the range of the stored record r.
Contains(r, n) == r.base <= n /\ n < r.base + r.size

\* The records of stack info type t whose range contains n.
StackAround(module, t, n) == {s \in module.stack_info_[t] : Contains(s, n)}

\* The function, line and file outputs are those of function f and its line l.
SourceOutputs(module, f, l) ==
  /\ frame'.function_name = f.entry.name
  /\ frame'.source_file_name = module.files_[l.entry.source_file_id]
  /\ frame'.source_line = l.entry.line

\* f is a stored function and l one of its lines, both around n, the file id
\* of l in the file table.
Resolves(module, f, l, n) ==
  /\ f \in module.functions_ /\ Contains(f, n)
  /\ l \in f.entry.lines /\ Contains(l, n)
  /\ l.entry.source_file_id \in DOMAIN module.files_

\* t is the first of the types 4, 0, 3 that has a record around n.
FirstType(module, t, n) ==
  /\ StackAround(module, t, n) # {}
  /\ t = STACK_INFO_FPO => StackAround(module, STACK_INFO_FRAME_DATA, n) = {}
  /\ t = STACK_INFO_STANDARD =>
       /\ StackAround(module, STACK_INFO_FRAME_DATA, n) = {}
       /\ StackAround(module, STACK_INFO_FPO, n) = {}

ProbedTypes == {STACK_INFO_FRAME_DATA, STACK_INFO_FPO, STACK_INFO_STANDARD}

\* s is the smallest of the records of its type t around n.
Smallest(module, t, s, n) ==
  /\ s \in StackAround(module, t, n)
  /\ \A q \in StackAround(module, t, n) : s.size <= q.size

\* C4 as stated: a lookup at an address inside a stored function, inside one
\* of its lines whose file id has a name, and inside any stored STACK WIN
\* record yields the function's name, the file's name, the line's number and
\* that record as the frame info.
C4_AnyStackRecordReturned ==
  [][Fills =>
       \A n \in ProbeRange : Rel(n) =>
         \A f \in FrameModule.functions_ : \A l \in f.entry.lines :
           \A t \in 0..(STACK_INFO_LAST - 1) : \A s \in FrameModule.stack_info_[t] :
             (Resolves(FrameModule, f, l, n) /\ Contains(s, n) /\ ~frame_info.null) =>
               /\ SourceOutputs(FrameModule, f, l)
               /\ frame_info'.info = s.entry]_vars

\* C4: a lookup at an address inside a stored function and inside one of its
\* lines whose file id has a name yields the function's name, the file's name
\* and the line's number; if the address is also inside a stored STACK WIN
\* record of type 4, 0 or 3, the frame info is the valid record of the
\* smallest range around the address in the first of these types that has
\* one.
C4_HappyPathLookup ==
  [][Fills =>
       \A n \in ProbeRange : Rel(n) =>
         \A f \in FrameModule.functions_ : \A l \in f.entry.lines :
           Resolves(FrameModule, f, l, n) =>
             /\ SourceOutputs(FrameModule, f, l)
             /\ \A t \in ProbedTypes : \A s \in FrameModule.stack_info_[t] :
                  (/\ ~frame_info.null
                   /\ FirstType(FrameModule, t, n)
                   /\ Smallest(FrameModule, t, s, n)) =>
                    /\ frame_info'.info = s.entry
                    /\ frame_info'.info.valid]_vars

\* C4 witness: FILE 0 a.c, FUNC 1000 10 foo, 1000 5 42 0 and STACK WIN 4 1000
\* 10 ... prog are loaded and the lookup at 0x1000 has given foo, a.c, 42 and
\* prog.
C4_Witness ==
  /\ call.op = "FillSourceLineInfo"
  /\ frame.instruction = ToU64(4096)
  /\ frame.function_name = nFoo
  /\ frame.source_file_name = nAc
  /\ frame.source_line = 42
  /\ ~frame_info.null
  /\ frame_info.info = NewStackFrameInfo(1, 2, 3, 4, 5, 6, nProg)

C6_UnknownFileId ==
  [][Fills =>
       \A n \in ProbeRange : Rel(n) =>
         \A f \in FrameModule.functions_ : \A l \in f.entry.lines :
           (/\ Contains(f, n) /\ Contains(l, n)
            /\ l.entry.source_file_id \notin DOMAIN FrameModule.files_) =>
             /\ frame'.function_name = f.entry.name
             /\ frame'.source_line = l.entry.line
             /\ frame'.source_file_name = frame.source_file_name]_vars

\* C6 witness: the lookup at 0x1005, in the line 1005 3 43 1 of foo, file 1
\* without a FILE record, has set foo and 43 in a frame that held an old file
\* name, and the old file name is still there.
C6_Witness ==
  /\ call.op = "FillSourceLineInfo"
  /\ frame.instruction = ToU64(4101)
  /\ frame.function_name = nFoo
  /\ frame.source_line = 43
  /\ frame.source_file_name = nOld

\* The outputs named by `field` come from a record of `stored` around n, or
\* stay as they were if there is none.
FromAround(stored, n, old, new, Value(_)) ==
  IF \E g \in stored : Contains(g, n)
  THEN \E g \in stored : Contains(g, n) /\ new = Value(g)
  ELSE new = old

FunctionName(f) == f.entry.name
LineNumber(l) == l.entry.line

\* C7: for a stored function of base b and size s > 0, the lookups at b and
\* at b+s-1 give that function, and the lookup at b+s gives the function of
\* another stored range around b+s, or none; the same for the lines of the
\* function a lookup finds.
C7_HalfOpenRanges ==
  [][Fills =>
       \A n \in ProbeRange : Rel(n) =>
         \A f \in FrameModule.functions_ : f.size > 0 =>
           /\ (n = f.base \/ n = f.base + f.size - 1) =>
                /\ frame'.function_name = f.entry.name
                /\ \A l \in f.entry.lines : l.size > 0 =>
                     /\ (n = l.base \/ n = l.base + l.size - 1) =>
                          frame'.source_line = l.entry.line
                     /\ n = l.base + l.size =>
                          FromAround(f.entry.lines \ {l}, n, frame.source_line,
                                     frame'.source_line, LineNumber)
           /\ n = f.base + f.size =>
                FromAround(FrameModule.functions_ \ {f}, n, frame.function_name,
                           frame'.function_name, FunctionName)]_vars

\* C7 witness: FUNC 1000 10 foo is stored, no stored function contains
\* 0x1010, and the lookup at 0x1010 has left the old function name in place.
C7_Witness ==
  /\ call.op = "FillSourceLineInfo"
  /\ frame.module_name \in DOMAIN modules
  /\ frame.instruction = ToU64(4112)
  /\ \E f \in modules[frame.module_name].functions_ :
       f.base = 4096 /\ f.size = 16 /\ f.entry.lines # {}
  /\ frame.function_name = nOld
  /\ frame.source_line = 99

\* The tokens of the line in LoadMap's buffer after the step, read as a
\* "FUNC " or a "STACK " record (no tokens if it is another kind of line).
FuncTokens ==
  IF HasPrefix(load'.buffer, <<"F", "U", "N", "C", " ">>)
  THEN Tokenize(DropFirst(load'.buffer, 5), 3)
  ELSE [ok |-> FALSE, tokens |-> <<>>]

StackTokens ==
  IF HasPrefix(load'.buffer, <<"S", "T", "A", "C", "K", " ">>)
  THEN Tokenize(DropFirst(load'.buffer, 6), 11)
  ELSE [ok |-> FALSE, tokens |-> <<>>]

\* tk are the tokens of a well-formed STACK WIN record of a known type.
WellFormedStack(tk) ==
  /\ tk.ok
  /\ tk.tokens[1] = kWIN
  /\ strtol16(tk.tokens[2]) \in 0..(STACK_INFO_LAST - 1)

\* [b, b+s) and the range of the stored record r share an address.
Meets(b, s, r) == b < r.base + r.size /\ r.base < b + s

\* [b, b+s) lies in the range of r; the range of r lies in [b, b+s).
Within(b, s, r) == r.base <= b /\ b + s <= r.base + r.size
Encloses(b, s, r) == b <= r.base /\ r.base + r.size <= b + s

\* C8 as stated: a FUNC record that overlaps a stored function is dropped and
\* the load goes on; from then to the next FUNC record every line record is
\* taken without harm: the process lives, and the function map, with the
\* lines of its functions, stays as it was.
C8_OverlappingFuncDropped ==
  [][/\ (pc = "loading" /\ load' # load /\ load.rest = <<>>) =>
          \A tk \in {FuncTokens} :
            (/\ tk.ok
             /\ \E r \in load.module.functions_ :
                  Meets(strtoull16(tk.tokens[1]), strtoull16(tk.tokens[2]), r)) =>
              /\ pc' = "loading"
              /\ load'.module = load.module
     /\ (pc = "loading" /\ load.cur_func.kind = "deleted") =>
          /\ pc' # "crashed"
          /\ (pc' = "loading" /\ ~FuncTokens.ok) =>
               load'.module.functions_ = load.module.functions_]_vars

\* The record of type t with the numeric fields n and the program string
\* `program` is in the map after the step, which is otherwise as before.
StackRecordAdded(t, n, program) ==
  \E s \in load'.module.stack_info_[t] :
    /\ s.base = n[3] /\ s.size = n[4]
    /\ s.entry = NewStackFrameInfo(n[5], n[6], n[7], n[8], n[9], n[10], program)
    /\ load'.module.stack_info_[t] \ {s} = load.module.stack_info_[t] \ {s}

\* [b, b+s) lies inside a stored record of type t, and inside or apart from
\* every stored record of the type.
WellNested(t, b, s) ==
  /\ \E r \in load.module.stack_info_[t] : Within(b, s, r)
  /\ \A r \in load.module.stack_info_[t] : Within(b, s, r) \/ ~Meets(b, s, r)

\* [b, b+s) overlaps a stored record of type t in part: it is neither inside
\* the record nor around it.
PartlyOverlaps(t, b, s) ==
  \E r \in load.module.stack_info_[t] :
    Meets(b, s, r) /\ ~Within(b, s, r) /\ ~Encloses(b, s, r)

\* C9: a STACK WIN record whose range lies inside the range of a stored record
\* of its type, and lies inside or apart from every other stored record of the
\* type, is stored; and a lookup that takes its frame info from a type gives
\* the record of the smallest range around the address, and leaves the frame
\* info alone when no record of a probed type is around the address.
C9_NestedStackInfo ==
  [][/\ (pc = "loading" /\ load' # load /\ load.rest = <<>>) =>
          \A tk \in {StackTokens} : WellFormedStack(tk) =>
            \A n \in {StackNumbers(tk.tokens)} :
              WellNested(strtol16(tk.tokens[2]), n[3], n[4]) =>
                /\ pc' = "loading"
                /\ StackRecordAdded(strtol16(tk.tokens[2]), n, tk.tokens[11])
     /\ (Fills /\ ~frame_info.null) =>
          \A n \in ProbeRange : Rel(n) =>
            /\ \A t \in ProbedTypes : \A s \in FrameModule.stack_info_[t] :
                 (FirstType(FrameModule, t, n) /\ Smallest(FrameModule, t, s, n)) =>
                   frame_info'.info = s.entry
            /\ (\A t \in ProbedTypes : StackAround(FrameModule, t, n) = {}) =>
                 frame_info'.info = frame_info.info]_vars

\* C9 witness: the type 4 records [1000,1010) and, nested in it, [1004,1008)
\* are stored, and the lookup at 0x1004 has given the nested one.
C9_Witness ==
  /\ call.op = "FillSourceLineInfo"
  /\ frame.module_name \in DOMAIN modules
  /\ frame.instruction = ToU64(4100)
  /\ ~frame_info.null
  /\ frame_info.info.program_string = nInner
  /\ \E s \in modules[frame.module_name].stack_info_[STACK_INFO_FRAME_DATA] :
       s.base = 4096 /\ s.size = 16 /\ s.entry.program_string = nProg

\* C10: a well-formed STACK WIN record whose range overlaps a stored record of
\* its type in part, neither inside it nor around it, is dropped: LoadMap goes
\* on to the next line (or to the end of the file, which nothing unread
\* stands before) with the module and cur_func as they were, so that every
\* lookup of the records read before answers as it would have.
C10_OverlappingStackInfoDropped ==
  [][(pc = "loading" /\ load' # load /\ load.rest = <<>>) =>
       \A tk \in {StackTokens} : WellFormedStack(tk) =>
         \A n \in {StackNumbers(tk.tokens)} :
           PartlyOverlaps(strtol16(tk.tokens[2]), n[3], n[4]) =>
             /\ pc' = "loading"
             /\ load'.module = load.module
             /\ load'.cur_func = load.cur_func
             /\ load'.rest = <<>>
             /\ call' = call]_vars

\* C10 witness: LoadMap has read STACK WIN 4 1008 10 ... late with the type 4
\* record [1000,1010) stored, holds no record of [1008,1018), and goes on.
C10_Witness ==
  /\ pc = "loading"
  /\ load.buffer = StackLate
  /\ \E s \in load.module.stack_info_[STACK_INFO_FRAME_DATA] :
       s.base = 4096 /\ s.size = 16
  /\ \A s \in load.module.stack_info_[STACK_INFO_FRAME_DATA] : s.base # 4104

\* A step of LoadMap that reads a whole physical line into its buffer.
ReadsLine == pc = "loading" /\ pc' # "idle" /\ load.rest = <<>> /\ load' # load

\* Where the words of s start: a word is a maximal run of characters other
\* than space, carriage return and newline.
WordStarts(s) ==
  {i \in 1..Len(s) : /\ s[i] \notin {" ", "\r", "\n"}
                     /\ (i = 1 \/ s[i-1] \in {" ", "\r", "\n"})}

\* The least element of a set of numbers.
Least(S) == CHOOSE x \in S : \A y \in S : x <= y

\* Where the first character of s from position i on that lies in d stands
\* (Len(s)+1 if there is none).
NextIn(s, i, d) == Least({j \in i..Len(s) : s[j] \in d} \cup {Len(s) + 1})
NextNotIn(s, i, d) == Least({j \in i..Len(s) : s[j] \notin d} \cup {Len(s) + 1})

\* Where the k-th word of s starts.
WordStart(s, k) ==
  CHOOSE i \in WordStarts(s) : Cardinality({j \in WordStarts(s) : j <= i}) = k

\* What follows the k-th word of s and the one character after it, from its
\* first character that is no carriage return or newline on (empty if s has
\* fewer than k words).
AfterWord(s, k) ==
  IF Cardinality(WordStarts(s)) < k THEN <<>>
  ELSE SubSeq(s, NextNotIn(s, NextIn(s, WordStart(s, k), {" ", "\r", "\n"}) + 1,
                           {"\r", "\n"}),
              Len(s))

UpToLineEnd(s) == SubSeq(s, 1, NextIn(s, 1, {"\r", "\n"}) - 1)

\* The last of the n tokens of s: all that follows the first n-1 words.
LastToken(s, n) == UpToLineEnd(AfterWord(s, n - 1))

\* The number of tokens s is split into when up to n are asked for: its
\* first n-1 words and, if anything follows them, the rest of the line.
WordCount(s, n) ==
  IF Cardinality(WordStarts(s)) < n - 1 THEN Cardinality(WordStarts(s))
  ELSE IF LastToken(s, n) = <<>> THEN n - 1 ELSE n

\* The kind of record LoadMap takes the line in its buffer for.
IsFileLine(b) == HasPrefix(b, kFILE \o <<" ">>)
IsStackLine(b) == ~IsFileLine(b) /\ HasPrefix(b, kSTACK \o <<" ">>)
IsFuncLine(b) == ~IsFileLine(b) /\ ~IsStackLine(b) /\ HasPrefix(b, kFUNC \o <<" ">>)
IsLineLine(b) == ~IsFileLine(b) /\ ~IsStackLine(b) /\ ~IsFuncLine(b)

\* The line b has fewer words after its keyword than its kind of record needs.
LacksTokens(b) ==
  \/ IsFuncLine(b) /\ WordCount(DropFirst(b, 5), 3) < 3
  \/ IsLineLine(b) /\ WordCount(b, 4) < 4
  \/ IsStackLine(b) /\ WordCount(DropFirst(b, 6), 11) < 11

\* LoadMap has returned false and LoadModule returns false in its turn.
ReturnsFalse ==
  pc = "failed" =>
    /\ pc' = "idle"
    /\ call' = Returned("LoadModule", load.module_name, FALSE)
    /\ modules' = modules

\* C11 as stated: a FILE line with fewer than 2 tokens, a FUNC line with fewer
\* than 3, a line record with fewer than 4 and a STACK line with fewer than 11
\* each make LoadMap, and then LoadModule, return false.
C11_ShortLineAborts ==
  [][/\ ReadsLine =>
          ((\/ LacksTokens(load'.buffer)
            \/ IsFileLine(load'.buffer) /\ WordCount(DropFirst(load'.buffer, 5), 2) < 2) =>
             pc' = "failed")
     /\ ReturnsFalse]_vars

\* C11: a FUNC line with fewer than 3 tokens, a line record with fewer than 4
\* and a STACK line with fewer than 11 each make LoadMap, and then LoadModule,
\* return false; a FILE line with fewer than 2 tokens does not: LoadMap goes
\* on to the next line.
C11_ShortRecordAborts ==
  [][/\ ReadsLine =>
          /\ LacksTokens(load'.buffer) => pc' = "failed"
          /\ (IsFileLine(load'.buffer) /\ WordCount(DropFirst(load'.buffer, 5), 2) < 2) =>
               pc' = "loading"
     /\ ReturnsFalse]_vars

\* C11 witness: LoadMap has returned false on a STACK line of 10 tokens that
\* followed a stored function.
C11_Witness ==
  /\ pc = "failed"
  /\ load.buffer = StackShort
  /\ load.module.functions_ # {}

\* Nothing is added to `new`, or what is added carries `token`.
AddsOnly(old, new, token, Value(_)) ==
  \/ new = old
  \/ \E x \in new \ old : new \ {x} = old /\ Value(x) = token

ProgramString(s) == s.entry.program_string

\* The file table after the step is the one before, or has one more id, and
\* `token` as its name.
AddsFile(old, new, token) ==
  \/ new = old
  \/ \E id \in DOMAIN new \ DOMAIN old :
       /\ DOMAIN new = DOMAIN old \cup {id}
       /\ new[id] = token
       /\ \A i \in DOMAIN old : new[i] = old[i]

\* C12: Tokenize succeeds exactly when the line has the n-1 words and
\* something after them (a FUNC line is parsed exactly then; a FILE line
\* registers a name, and a STACK line is parsed, only then), and the last
\* token is all that follows the first n-1 words and one separator, up to the
\* end of the line, spaces included: it is the function name, the file name
\* and the program string that the module stores and the lookup returns.
C12_LastTokenVerbatim ==
  [][/\ (ReadsLine /\ IsFuncLine(load'.buffer)) =>
          /\ pc' = "failed" <=> WordCount(DropFirst(load'.buffer, 5), 3) < 3
          /\ pc' # "failed" =>
               AddsOnly(load.module.functions_, load'.module.functions_,
                        LastToken(DropFirst(load'.buffer, 5), 3), FunctionName)
     /\ (ReadsLine /\ IsFileLine(load'.buffer)) =>
          /\ pc' = "loading"
          /\ AddsFile(load.module.files_, load'.module.files_,
                      LastToken(DropFirst(load'.buffer, 5), 2))
          /\ WordCount(DropFirst(load'.buffer, 5), 2) < 2 =>
               load'.module = load.module
     /\ (ReadsLine /\ IsStackLine(load'.buffer)) =>
          /\ WordCount(DropFirst(load'.buffer, 6), 11) < 11 => pc' = "failed"
          /\ pc' # "failed" =>
               \A t \in 0..(STACK_INFO_LAST - 1) :
                 AddsOnly(load.module.stack_info_[t], load'.module.stack_info_[t],
                          LastToken(DropFirst(load'.buffer, 6), 11), ProgramString)
     /\ Fills =>
          \A n \in ProbeRange : Rel(n) =>
            \A f \in FrameModule.functions_ : Contains(f, n) =>
              frame'.function_name = f.entry.name]_vars

\* C12 witness: FILE 0 my file.c and a FUNC line with the name " foo bar" are
\* loaded, with a line of file 0, and the lookup has returned both names with
\* their spaces.
C12_Witness ==
  /\ call.op = "FillSourceLineInfo"
  /\ frame.function_name = <<" ">> \o nFooBar
  /\ frame.source_file_name = nMyFile
  /\ frame.source_line = 42

\* C13 as stated: whenever no LoadModule call is in progress, every file a
\* load has opened is closed again, however the load ended.
C13_FileHandleReleased == pc = "idle" => files_open = 0

\* C14: the registry is empty at construction; a module enters it in the
\* step in which LoadModule returns true for its name, and only then; a
\* registered module is never removed and never changed, so that its lookups
\* answer the same whatever is called later; and HasModule returns true
\* exactly for the registered names, changing nothing.
C14_RegistryLifecycle ==
  /\ modules = <<>>
  /\ [][/\ \A n \in DOMAIN modules :
             n \in DOMAIN modules' /\ modules'[n] = modules[n]
        /\ \A n \in DOMAIN modules' \ DOMAIN modules :
             /\ call' = Returned("LoadModule", n, TRUE)
             /\ DOMAIN modules' = DOMAIN modules \cup {n}
        /\ (call'.op = "LoadModule" /\ call'.done /\ call'.value /\ call' # call) =>
             call'.name \in DOMAIN modules' \ DOMAIN modules
        /\ (call'.op = "HasModule" /\ call' # call) =>
             /\ call'.value = (call'.name \in DOMAIN modules)
             /\ modules' = modules
        /\ Fills => modules' = modules]_vars

\* C14 witness: HasModule has returned true for m1 after m2 was registered
\* too and a load has failed.
C14_Witness ==
  /\ call = Returned("HasModule", "m1", TRUE)
  /\ DOMAIN modules = {"m1", "m2"}
  /\ modules["m1"] # modules["m2"]
  /\ files_open > 0

\* The k-th word of s (empty if s has fewer than k words).
Word(s, k) ==
  IF Cardinality(WordStarts(s)) < k THEN <<>>
  ELSE SubSeq(s, WordStart(s, k), NextIn(s, WordStart(s, k), {" ", "\r", "\n"}) - 1)

\* The line b is a record that LoadMap cannot place: a line record with no
\* current function cur_func or with a line number <= 0, a STACK record of a
\* platform other than WIN or of a type outside 0..4.
Misplaced(b, cur_func) ==
  \/ IsLineLine(b) /\ cur_func.kind = "null"
  \/ IsLineLine(b) /\ WordCount(b, 4) = 4 /\ atoi(Word(b, 3)) <= 0
  \/ IsStackLine(b) /\ Word(DropFirst(b, 6), 1) # kWIN
  \/ IsStackLine(b) /\ WordCount(DropFirst(b, 6), 11) = 11
                    /\ strtol16(Word(DropFirst(b, 6), 2)) \notin 0..(STACK_INFO_LAST - 1)

\* C16: a line record read while there is no current function, a line record
\* whose line number is <= 0, a STACK record whose platform is not WIN and a
\* STACK record whose type is outside 0..4 each end the load at once: the
\* record changes nothing in the module, LoadMap reads no further line, and
\* LoadModule returns false and registers nothing.
C16_StructuralErrorAborts ==
  [][/\ (ReadsLine /\ Misplaced(load'.buffer, load.cur_func)) =>
          /\ pc' = "failed"
          /\ load'.module = load.module
     /\ ReturnsFalse]_vars

\* C16 witness: LoadMap has returned false on a line record with line number
\* 0 that followed a stored function, a FILE record and a STACK record.
C16_Witness ==
  /\ pc = "failed"
  /\ load.buffer = LineZero
  /\ load.cur_func.kind = "stored"
  /\ load.module.files_ # <<>>
  /\ load.module.stack_info_[STACK_INFO_FRAME_DATA] # {}

\* The FILE line b lacks its name token or carries a negative id.
MalformedFile(b) ==
  /\ IsFileLine(b)
  /\ \/ WordCount(DropFirst(b, 5), 2) < 2
     \/ atoi(Word(DropFirst(b, 5), 1)) < 0

\* C17: a FILE line without a name token, or with a negative id, is skipped:
\* the module holds what it held (no filename is registered), the current
\* function is the one it was, and LoadMap goes on to the next line.
C17_MalformedFileSkipped ==
  [][(ReadsLine /\ MalformedFile(load'.buffer)) =>
       /\ pc' = "loading"
       /\ load'.module = load.module
       /\ load'.cur_func = load.cur_func]_vars

\* C17 witness: LoadMap has read FILE -1 b.c after a stored function and a
\* registered file, goes on, and the file table holds id 0 alone.
C17_Witness ==
  /\ pc = "loading"
  /\ load.buffer = FileNegative
  /\ load.cur_func.kind = "stored"
  /\ DOMAIN load.module.files_ = {0}

\* C18: a FILE record whose id is not yet in the file table enters it under
\* its name; an id that is in the table keeps its name to the end of the load
\* and in the registered module, whatever FILE records with the same id
\* follow; and a lookup that maps the id returns that name.
C18_FirstFileNameKept ==
  [][/\ (pc = "loading" /\ pc' # "idle") =>
          \A id \in DOMAIN load.module.files_ :
            /\ id \in DOMAIN load'.module.files_
            /\ load'.module.files_[id] = load.module.files_[id]
     /\ (pc = "loading" /\ pc' = "idle") =>
          modules'[load.module_name].files_ = load.module.files_
     /\ (ReadsLine /\ IsFileLine(load'.buffer)) =>
          /\ \A id \in DOMAIN load'.module.files_ \ DOMAIN load.module.files_ :
               /\ id = atoi(Word(DropFirst(load'.buffer, 5), 1))
               /\ load'.module.files_[id] = LastToken(DropFirst(load'.buffer, 5), 2)
          /\ ~MalformedFile(load'.buffer) =>
               atoi(Word(DropFirst(load'.buffer, 5), 1)) \in DOMAIN load'.module.files_
     /\ Fills =>
          \A n \in ProbeRange : Rel(n) =>
            \A f \in FrameModule.functions_ : \A l \in f.entry.lines :
              Resolves(FrameModule, f, l, n) =>
                frame'.source_file_name = FrameModule.files_[l.entry.source_file_id]]_vars

\* C18 witness: LoadMap has read FILE 0 b.c with id 0 registered as a.c, and
\* id 0 still names a.c.
C18_Witness ==
  /\ pc = "loading"
  /\ load.buffer = FileB
  /\ DOMAIN load.module.files_ = {0}
  /\ load.module.files_[0] = nAc
  /\ load.module.functions_ # {}

\* C19: a lookup at an address in no stored function leaves function_name,
\* source_file_name and source_line as the frame held them; a lookup at an
\* address in a function but in none of its line ranges sets function_name
\* and leaves source_file_name and source_line as the frame held them.
C19_PartialResolution ==
  [][Fills =>
       \A n \in ProbeRange : Rel(n) =>
         /\ (\A f \in FrameModule.functions_ : ~Contains(f, n)) =>
              /\ frame'.function_name = frame.function_name
              /\ frame'.source_file_name = frame.source_file_name
              /\ frame'.source_line = frame.source_line
         /\ \A f \in FrameModule.functions_ :
              (Contains(f, n) /\ \A l \in f.entry.lines : ~Contains(l, n)) =>
                /\ frame'.function_name = f.entry.name
                /\ frame'.source_file_name = frame.source_file_name
                /\ frame'.source_line = frame.source_line]_vars

\* C19 witness: the lookup at 0x1008, in foo past its two line records, has
\* set foo in a frame that held an old file name and line, and both are still
\* there.
C19_Witness ==
  /\ call.op = "FillSourceLineInfo"
  /\ frame.module_name \in DOMAIN modules
  /\ frame.instruction = ToU64(4104)
  /\ frame.module_base = ToU64(0)
  /\ \E f \in modules[frame.module_name].functions_ :
       f.entry.name = nFoo /\ Cardinality(f.entry.lines) = 2
  /\ frame.function_name = nFoo
  /\ frame.source_file_name = nOld
  /\ frame.source_line = 99

\* a + b in unsigned 64-bit arithmetic, limb by limb with its carries.
PlusU64(a, b) ==
  [i \in 1..4 |->
     (a[i] + b[i]
      + (IF \E j \in (i+1)..4 :
              /\ a[j] + b[j] >= LimbBase
              /\ \A k \in (i+1)..(j-1) : a[k] + b[k] = LimbBase - 1
         THEN 1 ELSE 0)) % LimbBase]

\* The module-relative addresses the frames at hand can have: 0, 4, 0x1000,
\* 0x1004, 0x2000, 0x2004, 0x3000, 2^64 - 0x1000 and 2^64 - 0xffc.
RelativeAddresses ==
  {ToU64(n) : n \in {0, 4, 4096, 4100, 8192, 8196, 12288}}
    \cup {<<65535, 65535, 65535, 61440>>, <<65535, 65535, 65535, 61444>>}

\* C20: FillSourceLineInfo on a frame of a registered module resolves the one
\* address r with module_base + r = instruction (mod 2^64): the frame and the
\* frame info it leaves are those of the module's lookup at r, the same for
\* every module base and instruction with that r, also when the instruction
\* lies below the module base.
C20_RelativeAddressWraps ==
  [][(Fills /\ frame.module_name \in DOMAIN modules) =>
       /\ \E r \in RelativeAddresses : PlusU64(frame.module_base, r) = frame.instruction
       /\ \A r \in RelativeAddresses :
            PlusU64(frame.module_base, r) = frame.instruction =>
              /\ frame' = LookupSource(FrameModule, r, frame)
              /\ frame_info' = IF frame_info.null THEN frame_info
                               ELSE InfoAt(LookupStackInfo(FrameModule, r, frame_info.info))]_vars

\* C20 witness: a frame with instruction 4 in a module based at 2^64 - 0x1000
\* has been resolved at 0x1004, in foo and in its line 42 of a.c.
C20_Witness ==
  /\ call.op = "FillSourceLineInfo"
  /\ frame.module_base = <<65535, 65535, 65535, 61440>>
  /\ frame.instruction = ToU64(4)
  /\ frame.function_name = nFoo
  /\ frame.source_file_name = nAc
  /\ frame.source_line = 42

\* The module without the line records that share no address with the
\* function that owns them.
WithoutOutsideLines(module) ==
  [module EXCEPT !.functions_ =
     {[f EXCEPT !.entry.lines =
         {l \in @ : RangesOverlap(l.base, l.size, f.base, f.size)}] : f \in @}]

\* Some function of the module owns a line record that lies outside it and
\* contains n.
OutsideLineAt(module, n) ==
  \E f \in module.functions_ : \E l \in f.entry.lines :
    Contains(l, n) /\ ~RangesOverlap(l.base, l.size, f.base, f.size)

\* C21: a lookup that changes source_file_name has set source_line from a line
\* record in the same call, and a lookup that changes source_line has set
\* function_name from the function that contains the address and owns the
\* line record; a line record that lies outside the function that owns it
\* contributes nothing: the frame is the one the lookup leaves on the module
\* without such records.
C21_OutputChain ==
  [][Fills =>
       \A n \in ProbeRange : Rel(n) =>
         /\ frame'.source_file_name # frame.source_file_name =>
              \E f \in FrameModule.functions_ : \E l \in f.entry.lines :
                /\ Contains(f, n) /\ Contains(l, n)
                /\ frame'.source_line = l.entry.line
         /\ frame'.source_line # frame.source_line =>
              \E f \in FrameModule.functions_ : \E l \in f.entry.lines :
                /\ Contains(f, n) /\ Contains(l, n)
                /\ frame'.function_name = f.entry.name
         /\ frame' = LookupSource(WithoutOutsideLines(FrameModule), ToU64(n), frame)]_vars

\* C21 witness: foo owns the line record [1010,1014), outside its range
\* [1000,1010), no function contains 0x1010, and the lookup at 0x1010 has left
\* the old function name, file name and line in the frame.
C21_Witness ==
  /\ call.op = "FillSourceLineInfo"
  /\ frame.module_name \in DOMAIN modules
  /\ frame.instruction = ToU64(4112)
  /\ OutsideLineAt(modules[frame.module_name], 4112)
  /\ frame.function_name = nOld
  /\ frame.source_file_name = nOld
  /\ frame.source_line = 99

UnprobedTypes == {STACK_INFO_TRAP, STACK_INFO_TSS}

\* The line b is a STACK WIN record with all its tokens, of type 1 or 2.
TrapOrTssLine(b) ==
  /\ IsStackLine(b)
  /\ WordCount(DropFirst(b, 6), 11) = 11
  /\ Word(DropFirst(b, 6), 1) = kWIN
  /\ strtol16(Word(DropFirst(b, 6), 2)) \in UnprobedTypes

\* The step has put a record of type t for [base, base+size) with the program
\* string `program` into the module, or the module holds it already.
HoldsStackRecord(t, base, size, program) ==
  \E s \in load'.module.stack_info_[t] :
    /\ s.base = base /\ s.size = size
    /\ s.entry.program_string = program
    /\ s.entry.valid

\* C22: a STACK WIN record of type 1 or 2 that overlaps no stored record of
\* its type in part is stored and the load goes on; a lookup never takes its
\* frame info from a record of these types: the frame info it leaves is the
\* one it was given or that of a type 4, 0 or 3 record around the address,
\* and it is the one it was given when records of the types 1 and 2 alone
\* are around the address.
C22_TrapAndTssNeverReturned ==
  [][/\ (ReadsLine /\ TrapOrTssLine(load'.buffer)) =>
          \A t \in {strtol16(Word(DropFirst(load'.buffer, 6), 2))} :
            ~PartlyOverlaps(t, strtoull16(Word(DropFirst(load'.buffer, 6), 3)),
                            strtoull16(Word(DropFirst(load'.buffer, 6), 4))) =>
              /\ pc' = "loading"
              /\ HoldsStackRecord(t, strtoull16(Word(DropFirst(load'.buffer, 6), 3)),
                                  strtoull16(Word(DropFirst(load'.buffer, 6), 4)),
                                  LastToken(DropFirst(load'.buffer, 6), 11))
              /\ \A u \in 0..(STACK_INFO_LAST - 1) \ {t} :
                   load'.module.stack_info_[u] = load.module.stack_info_[u]
     /\ Fills =>
          \A n \in ProbeRange : Rel(n) =>
            /\ \/ frame_info' = frame_info
               \/ \E t \in ProbedTypes : \E s \in StackAround(FrameModule, t, n) :
                    frame_info'.info = s.entry
            /\ (\A t \in ProbedTypes : StackAround(FrameModule, t, n) = {}) =>
                 frame_info' = frame_info]_vars

\* C22 witness: the module holds a trap and a TSS record around 0x1010 and
\* type 4 and type 0 records that end before it, and the lookup at 0x1010 has
\* left the frame info it was given, an old valid one.
C22_Witness ==
  /\ call.op = "FillSourceLineInfo"
  /\ frame.module_name \in DOMAIN modules
  /\ frame.instruction = ToU64(4112)
  /\ StackAround(modules[frame.module_name], STACK_INFO_TRAP, 4112) # {}
  /\ StackAround(modules[frame.module_name], STACK_INFO_TSS, 4112) # {}
  /\ modules[frame.module_name].stack_info_[STACK_INFO_FRAME_DATA] # {}
  /\ modules[frame.module_name].stack_info_[STACK_INFO_FPO] # {}
  /\ frame_info = InfoAt(StaleInfo)

\* A step in which fgets returns data: the start of a physical line or, when
\* part of one is unread, its next part.
ReadsChunk == pc = "loading" /\ pc' # "idle" /\ load' # load
ReadsOn == ReadsChunk /\ load.rest # <<>>

\* C23 as stated: fgets returns at most 1023 characters, and a later part of
\* a physical line that is not a valid record of the kind its own first
\* characters give it (FILE, STACK, FUNC, else line record) makes the load
\* return false.
C23_InvalidChunkAborts ==
  [][/\ ReadsChunk => Len(load'.buffer) <= 1023
     /\ (ReadsOn /\ (\/ LacksTokens(load'.buffer)
                     \/ Misplaced(load'.buffer, load.cur_func)
                     \/ MalformedFile(load'.buffer))) =>
          pc' = "failed"]_vars

\* C23: fgets returns at most 1023 characters, the next ones of the physical
\* line being read, and stops short of the line's end only with 1023; what it
\* returns is taken for a record of the kind its own first characters give
\* it, whether it starts a physical line or not: a FUNC, STACK or line record
\* that lacks tokens or cannot be placed makes the load return false, a FILE
\* record registers its name or, if malformed, is skipped, a FUNC record with
\* its tokens makes a function of its last token, and a line record with its
\* tokens after a stored function leaves the load going.
C23_ChunksAreRecords ==
  [][ReadsChunk =>
       /\ Len(load'.buffer) <= 1023
       /\ load.rest # <<>> => load'.buffer \o load'.rest = load.rest
       /\ load'.rest # <<>> => Len(load'.buffer) = 1023
       /\ (LacksTokens(load'.buffer) \/ Misplaced(load'.buffer, load.cur_func)) =>
            pc' = "failed"
       /\ IsFileLine(load'.buffer) =>
            /\ pc' = "loading"
            /\ load'.cur_func = load.cur_func
            /\ AddsFile(load.module.files_, load'.module.files_,
                        LastToken(DropFirst(load'.buffer, 5), 2))
            /\ MalformedFile(load'.buffer) => load'.module = load.module
       /\ (IsFuncLine(load'.buffer) /\ ~LacksTokens(load'.buffer)) =>
            /\ pc' = "loading"
            /\ AddsOnly(load.module.functions_, load'.module.functions_,
                        LastToken(DropFirst(load'.buffer, 5), 3), FunctionName)
       /\ (/\ IsLineLine(load'.buffer) /\ load.cur_func.kind = "stored"
           /\ ~LacksTokens(load'.buffer)
           /\ ~Misplaced(load'.buffer, load.cur_func)) =>
            /\ pc' = "loading"
            /\ load'.cur_func = load.cur_func]_vars

\* C23 witness: of one physical line, FUNC 1000 10 with a name of 1010 x's
\* and then 1000 5 42 0, the first 1023 characters have made the function and
\* the rest has been stored as its line record; the load goes on.
C23_Witness ==
  /\ pc = "loading"
  /\ load.nlines = 1
  /\ load.buffer = Line42
  /\ \E f \in load.module.functions_ :
       /\ f.entry.name = Pad(1010)
       /\ \E l \in f.entry.lines : l.entry.line = 42

====
